---- MODULE Spec2Model ----
(***************************************************************************)
(* The background generator worker of traverse-lsp and its dispatchers.    *)
(*                                                                         *)
(*   src/src/generator_worker.rs   GenerationRequest, GeneratorWorker::run *)
(*   src/src/handlers/common.rs    send_request_to_worker                  *)
(*   src/src/handlers/execute_command.rs   execute_command                 *)
(*   src/src/main.rs               main_loop                               *)
(*   src/src/traverse_adapter.rs   TraverseAdapter                         *)
(*                                                                         *)
(* Spec        the library-level contract: NumContexts threads call        *)
(*             send_request_to_worker on clones of the mpsc Sender, one    *)
(*             holder of the Sender enqueues Shutdown, one worker thread   *)
(*             runs GeneratorWorker::run.                                  *)
(* FairSpec    Spec with the scheduler's fairness on every thread.         *)
(* AbandonSpec Spec plus submitters that build a GenerationRequest         *)
(*             themselves and drop the oneshot Receiver (a timeout or a    *)
(*             cancellation in the caller).                                *)
(* MainSpec    the server as main_loop wires it: one thread reads the      *)
(*             connection and is itself the only dispatcher.               *)
(* FairMainSpec MainSpec with the scheduler's fairness on both threads.    *)
(* FrontSpec   MainSpec with a further holder of the Sender that may       *)
(*             enqueue Shutdown: execute_command as a public function.     *)
(* AcqSpec     the four handlers of run, call by call, on every disk:      *)
(*             source acquisition and the call-graph build.                *)
(* RenderSpec  the flowchart and combined handlers with every answer of    *)
(*             the diagram chunker.                                        *)
(* StorageSpec the storage-layout handler on call graphs and storage       *)
(*             summaries of the engine.                                    *)
(***************************************************************************)
EXTENDS Integers, Sequences, FiniteSets, TLC

\* Number of dispatch calls (each with its own oneshot channel) in a run.
NumContexts == 2

\* Number of inbound messages other than executeCommand and shutdown that
\* the main loop reads in a run.
MaxOther == 2

Contexts == 1..NumContexts

\* enqOrder and startOrder record a Shutdown message as context 0.
ShutdownId == 0

----------------------------------------------------------------------------
\* Documents, the file system and the engine's parser as the handlers see them.

\* Url::to_file_path succeeds on file:// URIs only; "untitled:1" is none.
FileUris == {"a.sol", "b.sol"}

\* The texts a file can hold; "#" is a token parse_solidity rejects.
Contents == { <<"A">>, <<"#">> }

\* The states of the disk when a handler reads it: the files present and
\* readable, each with its text.  A file found by the front end can be
\* removed or rewritten before the worker reads it.
FileSystems == UNION { [P -> Contents] : P \in SUBSET FileUris }

\* The lists of sources the dispatchers submit (never empty: workspace_command
\* returns before dispatch when no file is found).
UriLists == { <<"a.sol", "b.sol">>, <<"a.sol", "untitled:1">> }

Ok(v) == [tag |-> "Ok", val |-> v]
Err(e) == [tag |-> "Err", val |-> e]
NoResult == [tag |-> "None", val |-> ""]

\* uri.to_file_path().map_err(|_| anyhow!("Invalid URI"))
ToFilePath(uri) == IF uri \in FileUris THEN Ok(uri) ELSE Err("Invalid URI")

\* std::fs::read_to_string(&path)
ReadToString(fs, path) ==
    IF path \in DOMAIN fs THEN Ok(fs[path]) ELSE Err("ReadError")

\* A loop that leaves out combined_source.push('\n').
RECURSIVE CombinedSource_NoNewline(_, _, _)
CombinedSource_NoNewline(fs, uris, acc) ==
    IF uris = <<>> THEN Ok(acc)
    ELSE LET path == ToFilePath(Head(uris)) IN
         IF path.tag = "Err" THEN path
         ELSE LET content == ReadToString(fs, path.val) IN
              IF content.tag = "Err" THEN content
              ELSE CombinedSource_NoNewline(fs, Tail(uris), acc \o content.val)

\* A loop that skips what it cannot resolve or read.
RECURSIVE CombinedSource_SkipsUnreadable(_, _, _)
CombinedSource_SkipsUnreadable(fs, uris, acc) ==
    IF uris = <<>> THEN Ok(acc)
    ELSE LET path == ToFilePath(Head(uris)) IN
         IF path.tag = "Err" THEN CombinedSource_SkipsUnreadable(fs, Tail(uris), acc)
         ELSE LET content == ReadToString(fs, path.val) IN
              IF content.tag = "Err" THEN CombinedSource_SkipsUnreadable(fs, Tail(uris), acc)
              ELSE CombinedSource_SkipsUnreadable(fs, Tail(uris),
                                                  acc \o content.val \o <<"\n">>)

\* The loop of get_or_build_call_graph: the accumulated text, or the first error.
RECURSIVE CombinedSource(_, _, _)
CombinedSource(fs, uris, acc) ==
    IF uris = <<>> THEN Ok(acc)
    ELSE LET path == ToFilePath(Head(uris)) IN
         IF path.tag = "Err" THEN path
         ELSE LET content == ReadToString(fs, path.val) IN
              IF content.tag = "Err" THEN content
              ELSE CombinedSource(fs, Tail(uris), acc \o content.val \o <<"\n">>)

\* parse_solidity rejects a source holding a syntax error.
ParseSolidity(source) == \A i \in DOMAIN source : source[i] # "#"

\* TraverseAdapter::build_call_graph: the graph of the source, or the engine's error.
BuildCallGraph(source) ==
    IF ParseSolidity(source) THEN Ok([src |-> source]) ELSE Err("EngineError")

GetOrBuildCallGraph(fs, uris) ==
    LET combined == CombinedSource(fs, uris, <<>>) IN
    IF combined.tag = "Err" THEN combined ELSE BuildCallGraph(combined.val)

\* The four handlers: each builds the call graph first ("?" returns its
\* error) and then renders; the payload is named by its shape.
GenerateCallGraphDiagram(fs, uris) ==
    LET g == GetOrBuildCallGraph(fs, uris) IN
    IF g.tag = "Err" THEN g ELSE Ok("dot")

GenerateMermaidFlowchart(fs, uris, no_chunk) ==
    LET g == GetOrBuildCallGraph(fs, uris) IN
    IF g.tag = "Err" THEN g ELSE Ok("mermaid")

GenerateAllDiagrams(fs, uris) ==
    LET g == GetOrBuildCallGraph(fs, uris) IN
    IF g.tag = "Err" THEN g ELSE Ok("dot+mermaid")

GenerateStorageLayout(fs, uris) ==
    LET g == GetOrBuildCallGraph(fs, uris) IN
    IF g.tag = "Err" THEN g ELSE Ok("storage-md")

----------------------------------------------------------------------------
\* Messages of the mpsc channel.

Kinds == {"GenerateCallGraphDiagram", "GenerateMermaidFlowchart",
          "GenerateAllDiagrams", "GenerateStorageLayout"}

ShutdownMsg == [kind |-> "Shutdown", ctx |-> ShutdownId, uris |-> <<>>, no_chunk |-> FALSE]

\* The requests execute_command builds; ctx names the oneshot channel whose
\* Sender the request carries.
RequestsOf(c) ==
    { [kind |-> k, ctx |-> c, uris |-> u, no_chunk |-> n] :
        k \in Kinds, u \in UriLists, n \in BOOLEAN }
    \ { r \in [kind : Kinds, ctx : {c}, uris : UriLists, no_chunk : {TRUE}] :
          r.kind # "GenerateMermaidFlowchart" }

\* The match of GeneratorWorker::run: the handler of each variant.
HandlerResult(fs, r) ==
    CASE r.kind = "GenerateCallGraphDiagram" -> GenerateCallGraphDiagram(fs, r.uris)
      [] r.kind = "GenerateMermaidFlowchart" -> GenerateMermaidFlowchart(fs, r.uris, r.no_chunk)
      [] r.kind = "GenerateAllDiagrams" -> GenerateAllDiagrams(fs, r.uris)
      [] r.kind = "GenerateStorageLayout" -> GenerateStorageLayout(fs, r.uris)

----------------------------------------------------------------------------
VARIABLES
    queue,        \* the mpsc channel: messages sent and not yet received
    rxAlive,      \* the mpsc Receiver exists (run has not returned)
    wpc,          \* the worker thread: "recv", "handle", "reply", "exiting", "stopped"
    inflight,     \* requests dequeued and not yet replied to
    wres,         \* per context, the handler's result the worker holds
    cpc,          \* per context: "idle", "waiting", "returned", "panicked", "abandoned",
                  \*              "undispatched" (answered by the front end alone)
    slot,         \* per context, the oneshot channel of its request
    rxDropped,    \* per context, the oneshot Receiver was dropped by the submitter
    outcome,      \* per context, what send_request_to_worker returned
    sends,        \* history: per context, the number of tx.send calls of the worker
    tornAtSubmit, \* history: per context, the Receiver was gone when it submitted
    enqOrder,     \* history: contexts in the order their messages were enqueued
    startOrder,   \* history: contexts in the order the worker dequeued them
    shutdownSent, \* a Shutdown message has been sent
    mainpc,       \* main_loop: "off", "recv", "blocked", "joining", "returned", "panicked"
    mainCur,      \* the context of the dispatch call main_loop is inside of
    received,     \* history: inbound messages main_loop has read
    hrun,         \* the last handler run: its request, what it called and its result
    hprev,        \* history: the call graph built by the run before, if any
    world,        \* what a handler run finds: the disk, the engine's and the chunker's answers
    inbound,      \* the workspace/executeCommand request main_loop read last
    sent          \* the messages conn.sender was given for that request so far

mainVars == <<mainpc, mainCur, received>>
handlerVars == <<hrun, hprev, world>>
frontVars == <<inbound, sent>>
vars == <<queue, rxAlive, wpc, inflight, wres, cpc, slot, rxDropped, outcome, sends,
          tornAtSubmit, enqOrder, startOrder, shutdownSent, mainpc, mainCur, received,
          hrun, hprev, world, inbound, sent>>

\* Option<T>.
None == <<>>
Some(x) == <<x>>

\* serde_json renders None as null and Some(x) as x.
JsonNull == [json |-> "null"]
ToJson(opt) == IF opt = None THEN JsonNull ELSE opt[1]

\* No workspace/executeCommand request has been read.
NoInbound == [tag |-> "None"]

\* No handler has run yet.
NoRun == [kind |-> "None"]
NoWorld == [fs |-> <<>>]

\* States of a oneshot channel besides holding a value (Ok(v) or Err(e)).
NoChannel == [tag |-> "NoChannel", val |-> ""]
EmptySlot == [tag |-> "Empty", val |-> ""]
ClosedSlot == [tag |-> "Closed", val |-> ""]

\* What workspace_command makes of mpsc::SendError.
SendError == [tag |-> "SendError", val |-> "Failed to send request"]

InitCommon ==
    /\ queue = <<>>
    /\ rxAlive = TRUE
    /\ wpc = "recv"
    /\ inflight = {}
    /\ wres = [c \in Contexts |-> NoResult]
    /\ cpc = [c \in Contexts |-> "idle"]
    /\ slot = [c \in Contexts |-> NoChannel]
    /\ rxDropped = [c \in Contexts |-> FALSE]
    /\ outcome = [c \in Contexts |-> NoResult]
    /\ sends = [c \in Contexts |-> 0]
    /\ tornAtSubmit = [c \in Contexts |-> FALSE]
    /\ enqOrder = <<>>
    /\ startOrder = <<>>
    /\ shutdownSent = FALSE
    /\ mainCur = 0
    /\ received = 0
    /\ inbound = NoInbound
    /\ sent = <<>>

\* The worker has called no handler; it holds no call graph (GeneratorWorker
\* has the adapter as its only field).
HandlersIdle == hrun = NoRun /\ hprev = None

Init == InitCommon /\ mainpc = "off" /\ HandlersIdle /\ world = NoWorld

----------------------------------------------------------------------------
\* The dispatcher: send_request_to_worker.

\* A send that never reports the dropped Receiver.
SendSucceeds_Always == TRUE

\* mpsc::Sender::send fails exactly when the Receiver has been dropped.
SendSucceeds == rxAlive

\* oneshot::channel(), build_request(response_tx), tx.send(request)?
SubmitCore(c, r) ==
    /\ UNCHANGED handlerVars
    /\ cpc[c] = "idle"
    /\ tornAtSubmit' = [tornAtSubmit EXCEPT ![c] = ~rxAlive]
    /\ IF SendSucceeds
       THEN /\ queue' = Append(queue, r)
            /\ enqOrder' = Append(enqOrder, c)
            /\ slot' = [slot EXCEPT ![c] = EmptySlot]
            /\ cpc' = [cpc EXCEPT ![c] = "waiting"]
            /\ UNCHANGED outcome
       ELSE /\ slot' = [slot EXCEPT ![c] = ClosedSlot]
            /\ cpc' = [cpc EXCEPT ![c] = "returned"]
            /\ outcome' = [outcome EXCEPT ![c] = SendError]
            /\ UNCHANGED <<queue, enqOrder>>
    /\ UNCHANGED <<rxAlive, wpc, inflight, wres, rxDropped, sends, startOrder, shutdownSent>>

\* TOKIO_RUNTIME.block_on(response_rx) has a value or an error to return.
ReplyReady(c) == slot[c].tag \in {"Ok", "Err", "Closed"}

\* Ok(TOKIO_RUNTIME.block_on(response_rx).unwrap()): the position of the
\* calling thread after the wait, given the state of its oneshot channel.
AfterWait(s) == IF s.tag = "Closed" THEN "panicked" ELSE "returned"

AwaitCore(c) ==
    /\ UNCHANGED handlerVars
    /\ cpc[c] = "waiting"
    /\ ReplyReady(c)
    /\ cpc' = [cpc EXCEPT ![c] = AfterWait(slot[c])]
    /\ outcome' = [outcome EXCEPT ![c] = IF slot[c].tag = "Closed" THEN NoResult ELSE slot[c]]
    /\ UNCHANGED <<queue, rxAlive, wpc, inflight, wres, slot, rxDropped, sends,
                   tornAtSubmit, enqOrder, startOrder, shutdownSent>>

\* generator_tx.send(GenerationRequest::Shutdown)
ShutdownCore ==
    /\ UNCHANGED handlerVars
    /\ ~shutdownSent
    /\ shutdownSent' = TRUE
    /\ IF SendSucceeds
       THEN /\ queue' = Append(queue, ShutdownMsg)
            /\ enqOrder' = Append(enqOrder, ShutdownId)
       ELSE UNCHANGED <<queue, enqOrder>>
    /\ UNCHANGED <<rxAlive, wpc, inflight, wres, cpc, slot, rxDropped, outcome, sends,
                   tornAtSubmit, startOrder>>

Submit(c) == (\E r \in RequestsOf(c) : SubmitCore(c, r)) /\ UNCHANGED <<mainVars, frontVars>>

Await(c) == AwaitCore(c) /\ UNCHANGED <<mainVars, frontVars>>

SendShutdown == ShutdownCore /\ UNCHANGED <<mainVars, frontVars>>

----------------------------------------------------------------------------
\* The worker thread: GeneratorWorker::run.

\* A consumer that takes the newest message first.
NextIndex_Last(q) == Len(q)

\* A consumer that lets a queued Shutdown overtake the requests ahead of it.
NextIndex_ShutdownFirst(q) ==
    IF \E i \in DOMAIN q : q[i].kind = "Shutdown"
    THEN CHOOSE i \in DOMAIN q : q[i].kind = "Shutdown"
    ELSE 1

\* rx.iter() yields the messages in the order they were sent.
NextIndex(q) == 1

RemoveAt(q, i) == SubSeq(q, 1, i - 1) \o SubSeq(q, i + 1, Len(q))

\* A worker that takes the next message while a handler is still running.
AtRecv_WhileHandling == wpc \in {"recv", "handle"}

\* The worker is at the head of the for loop, blocked in rx.iter().next().
AtRecv == wpc = "recv"

\* for request in rx.iter() { match request { ... } }: one message leaves
\* the queue; Shutdown breaks out of the loop, any other starts its handler.
WorkerDequeue ==
    /\ UNCHANGED <<handlerVars, frontVars>>
    /\ AtRecv
    /\ rxAlive
    /\ queue # <<>>
    /\ LET i == NextIndex(queue)
           m == queue[i] IN
       /\ queue' = RemoveAt(queue, i)
       /\ startOrder' = Append(startOrder, m.ctx)
       /\ IF m.kind = "Shutdown"
          THEN wpc' = "exiting" /\ UNCHANGED inflight
          ELSE wpc' = "handle" /\ inflight' = inflight \cup {m}
    /\ UNCHANGED <<rxAlive, wres, cpc, slot, rxDropped, outcome, sends, tornAtSubmit,
                   enqOrder, shutdownSent, mainpc, mainCur, received>>

\* let result = self.generate_...(&uris, ...): the handler runs to its end on
\* the worker thread and its success value or error is captured.
WorkerHandle(r) ==
    /\ UNCHANGED <<handlerVars, frontVars>>
    /\ r \in inflight
    /\ wres[r.ctx] = NoResult
    /\ \E fs \in FileSystems : wres' = [wres EXCEPT ![r.ctx] = HandlerResult(fs, r)]
    /\ wpc' = "reply"
    /\ UNCHANGED <<queue, rxAlive, inflight, cpc, slot, rxDropped, outcome, sends,
                   tornAtSubmit, enqOrder, startOrder, shutdownSent, mainpc, mainCur, received>>

\* A match arm that returns early on a handler error, without replying.
SendsReply_OnlyOnSuccess(res) == res.tag = "Ok"

\* Whether the match arm calls tx.send for this result (every arm does).
SendsReply(res) == TRUE

\* A worker thread that a handler error takes down.
AfterReply_StopOnError(res, delivered) == IF res.tag = "Err" THEN "stopped" ELSE "recv"

\* tx.send(result).unwrap(): a dropped Receiver panics the worker thread.
AfterReply_UnwrapSend(res, delivered) == IF delivered THEN "recv" ELSE "stopped"

\* The worker's position after "let _ = tx.send(result)": the error of a
\* send to a dropped Receiver is discarded, and the loop goes on.
AfterReply(res, delivered) == "recv"

\* let _ = tx.send(result);
WorkerReply(r) ==
    LET c == r.ctx
        delivered == ~rxDropped[c] IN
    /\ UNCHANGED <<handlerVars, frontVars>>
    /\ r \in inflight
    /\ wres[c] # NoResult
    /\ IF SendsReply(wres[c])
       THEN /\ sends' = [sends EXCEPT ![c] = @ + 1]
            /\ slot' = [slot EXCEPT ![c] = IF delivered THEN wres[c] ELSE ClosedSlot]
       ELSE /\ UNCHANGED sends
            /\ slot' = [slot EXCEPT ![c] = ClosedSlot]
    /\ wres' = [wres EXCEPT ![c] = NoResult]
    /\ inflight' = inflight \ {r}
    /\ wpc' = AfterReply(wres[c], delivered)
    /\ UNCHANGED <<queue, rxAlive, cpc, rxDropped, outcome, tornAtSubmit, enqOrder,
                   startOrder, shutdownSent, mainpc, mainCur, received>>

\* run returns: the Receiver is dropped, and with it every message still in
\* the queue, each with the oneshot Sender it carries.
WorkerExit ==
    /\ UNCHANGED <<handlerVars, frontVars>>
    /\ wpc \in {"exiting"}
    /\ wpc' = "stopped"
    /\ rxAlive' = FALSE
    /\ queue' = <<>>
    /\ slot' = [c \in Contexts |->
                  IF \E i \in DOMAIN queue : queue[i].ctx = c THEN ClosedSlot ELSE slot[c]]
    /\ UNCHANGED <<inflight, wres, cpc, rxDropped, outcome, sends, tornAtSubmit,
                   enqOrder, startOrder, shutdownSent, mainpc, mainCur, received>>

Next ==
    \/ \E c \in Contexts : Submit(c)
    \/ \E c \in Contexts : Await(c)
    \/ SendShutdown
    \/ WorkerDequeue
    \/ \E r \in inflight : WorkerHandle(r)
    \/ \E r \in inflight : WorkerReply(r)
    \/ WorkerExit

Spec == Init /\ [][Next]_vars

\* Liveness: the scheduler runs every thread that can take a step, so the
\* worker thread and every thread blocked in block_on make progress.  What
\* and when the callers submit is theirs to choose.
FairSpec ==
    /\ Spec
    /\ WF_vars(WorkerDequeue)
    /\ WF_vars(\E r \in inflight : WorkerHandle(r))
    /\ WF_vars(\E r \in inflight : WorkerReply(r))
    /\ WF_vars(WorkerExit)
    /\ \A c \in Contexts : WF_vars(Await(c))

----------------------------------------------------------------------------
\* A submitter that holds the oneshot Receiver of a GenerationRequest it built
\* itself and drops it while the request is pending.
Abandon(c) ==
    /\ UNCHANGED <<handlerVars, frontVars>>
    /\ cpc[c] = "waiting"
    /\ cpc' = [cpc EXCEPT ![c] = "abandoned"]
    /\ rxDropped' = [rxDropped EXCEPT ![c] = TRUE]
    /\ UNCHANGED <<queue, rxAlive, wpc, inflight, wres, slot, outcome, sends, tornAtSubmit,
                   enqOrder, startOrder, shutdownSent, mainpc, mainCur, received>>

AbandonNext ==
    \/ \E c \in Contexts : Submit(c)
    \/ \E c \in Contexts : Await(c)
    \/ \E c \in Contexts : Abandon(c)
    \/ SendShutdown
    \/ WorkerDequeue
    \/ \E r \in inflight : WorkerHandle(r)
    \/ \E r \in inflight : WorkerReply(r)
    \/ WorkerExit

AbandonSpec == Init /\ [][AbandonNext]_vars

----------------------------------------------------------------------------
\* The front end: process_request, execute_command, workspace_command and
\* generation_result, as functions of the request and of what they find.

UnknownCommandCode == -32601
InvalidParamsCode == -32602
InternalErrorCode == -32603

\* lsp_server::Response::new_ok / new_err.
Response_new_ok(id, result) ==
    [msg |-> "Response", id |-> id, result |-> Some(result), error |-> None]
Response_new_err(id, code, message) ==
    [msg |-> "Response", id |-> id, result |-> None,
     error |-> Some([code |-> code, message |-> message])]

\* show_message: a window/showMessage notification.
ShowMessage(typ, message) ==
    [msg |-> "Notification", method |-> "window/showMessage", typ |-> typ, message |-> message]

\* A string literal of the source, and e.to_string(), the text an error
\* displays.
Text(literal) == [text |-> literal]
to_string(e) == [display_of |-> e]

\* The command names of crate::commands execute_command matches on.
Commands == {"GENERATE_CALL_GRAPH_WORKSPACE", "GENERATE_SEQUENCE_DIAGRAM_WORKSPACE",
             "GENERATE_ALL_WORKSPACE", "ANALYZE_STORAGE_WORKSPACE"}

\* params.arguments: empty, a first value that is no WorkspaceArgs, or a
\* WorkspaceArgs (no_chunk defaults to false).
WorkspaceArgs(no_chunk) ==
    [tag |-> "WorkspaceArgs", workspace_folder |-> "ws", no_chunk |-> no_chunk]
ArgumentLists ==
    { [tag |-> "missing"], [tag |-> "invalid"] } \cup { WorkspaceArgs(n) : n \in BOOLEAN }

\* The params of a workspace/executeCommand request: ExecuteCommandParams, or
\* a value req.extract rejects.
ExecuteCommandParams(command, arguments) ==
    [tag |-> "ExecuteCommandParams", command |-> command, arguments |-> arguments]
ExecuteRequests ==
    { [tag |-> "malformed"] }
    \cup { ExecuteCommandParams(k, a) : k \in Commands \cup {"other"}, a \in ArgumentLists }

\* What the walk of the workspace folder gives: an error, no .sol file, or
\* the file URIs of the .sol files found.
WalkResults == { Err("WalkError"), Ok(<<>>), Ok(<<"a.sol">>), Ok(<<"a.sol", "b.sol">>) }
NotWalked == [tag |-> "None", val |-> ""]

extract_args(params, id) ==
    IF params.arguments.tag = "missing"
    THEN Err(Response_new_err(id, InvalidParamsCode, Text("Missing arguments")))
    ELSE IF params.arguments.tag = "invalid"
    THEN Err(Response_new_err(id, InvalidParamsCode, Text("Invalid parameters")))
    ELSE Ok(params.arguments)

find_solidity_files(workspace_folder, walk) == walk

\* A front end that dispatches whatever the walk found.
IsEmpty_Never(sol_files) == FALSE

\* sol_files.is_empty()
IsEmpty(sol_files) == sol_files = <<>>

\* The closures execute_command passes as build_request: the progress message
\* shown and the GenerationRequest built (tx is the Sender of context id).
BuildRequest(params, uris, id) ==
    LET args == extract_args(params, id)
        no_chunk == IF args.tag = "Ok" THEN args.val.no_chunk ELSE FALSE IN
    CASE params.command = "GENERATE_CALL_GRAPH_WORKSPACE" ->
           [note |-> ShowMessage("INFO", <<"Analyzing ", Len(uris), " files...">>),
            request |-> [kind |-> "GenerateCallGraphDiagram", ctx |-> id, uris |-> uris,
                         no_chunk |-> FALSE]]
      [] params.command = "GENERATE_SEQUENCE_DIAGRAM_WORKSPACE" ->
           [note |-> ShowMessage("INFO", <<"Generating diagram for ", Len(uris), " files...">>),
            request |-> [kind |-> "GenerateMermaidFlowchart", ctx |-> id, uris |-> uris,
                         no_chunk |-> no_chunk]]
      [] params.command = "GENERATE_ALL_WORKSPACE" ->
           [note |-> ShowMessage("INFO", <<"Generating all for ", Len(uris), " files...">>),
            request |-> [kind |-> "GenerateAllDiagrams", ctx |-> id, uris |-> uris,
                         no_chunk |-> FALSE]]
      [] params.command = "ANALYZE_STORAGE_WORKSPACE" ->
           [note |-> ShowMessage("INFO", <<"Analyzing storage for ", Len(uris), " files...">>),
            request |-> [kind |-> "GenerateStorageLayout", ctx |-> id, uris |-> uris,
                         no_chunk |-> FALSE]]

\* How far execute_command gets before it would call send_request_to_worker:
\* it has a response to send ("Response"), it returns an error to
\* process_request ("Err"), or it has files to dispatch ("Dispatch").
Step(tag, response, error, uris, notes) ==
    [tag |-> tag, response |-> response, error |-> error, uris |-> uris, notes |-> notes]

workspace_command(params, walk, id) ==
    LET args == extract_args(params, id) IN
    IF args.tag = "Err" THEN Step("Response", Some(args.val), None, <<>>, <<>>)
    ELSE LET sol_files == find_solidity_files(args.val.workspace_folder, walk) IN
         IF sol_files.tag = "Err" THEN Step("Err", None, Some(sol_files.val), <<>>, <<>>)
         ELSE IF IsEmpty(sol_files.val)
         THEN Step("Response", Some(Response_new_ok(id, JsonNull)), None, <<>>,
                   <<ShowMessage("WARNING", "No Solidity files found in workspace")>>)
         ELSE Step("Dispatch", None, None, sol_files.val, <<>>)

execute_command(params, walk, id) ==
    IF params.tag = "malformed" THEN Step("Err", None, Some("ExtractError"), <<>>, <<>>)
    ELSE IF params.command \in Commands THEN workspace_command(params, walk, id)
    ELSE Step("Response",
              Some(Response_new_err(id, UnknownCommandCode,
                                    Text(<<"Unknown command: ", params.command>>))),
              None, <<>>, <<>>)

\* serde_json::from_str::<Value>(&diagram_data): the handlers' JSON objects
\* parse, the storage report (markdown) does not.
FromStr(diagram_data) ==
    IF diagram_data = "storage-md" THEN Err("SyntaxError")
    ELSE Ok([json_of |-> diagram_data])

\* generation_result on the value send_request_to_worker returned (result is
\* the outer Result): the message shown and the response built.
generation_result(id, result) ==
    IF result.tag = "Ok" /\ result.val.tag = "Ok"
    THEN LET json_data == FromStr(result.val.val) IN
         [notes |-> <<>>,
          response |-> Response_new_ok(id,
              IF json_data.tag = "Ok"
              THEN [success |-> TRUE, data |-> json_data.val]
              ELSE [success |-> TRUE, diagram |-> result.val.val])]
    ELSE IF result.tag = "Ok"
    THEN [notes |-> <<ShowMessage("ERROR",
                                  <<"Failed to generate: ", to_string(result.val.val)>>)>>,
          response |-> Response_new_err(id, InternalErrorCode, to_string(result.val.val))]
    ELSE [notes |-> <<>>,
          response |-> Response_new_err(id, InternalErrorCode, Text("Internal error"))]

\* The match on send_request_to_worker's result that ends workspace_command.
workspace_command_result(id, result) ==
    IF result.tag = "SendError"
    THEN [notes |-> <<>>,
          response |-> Response_new_err(id, InternalErrorCode, Text("Failed to send request"))]
    ELSE generation_result(id, Ok(result))

\* What conn.sender is given for one request: the messages shown, then the
\* response execute_command sends when it got one, or else the error response
\* process_request makes of execute_command's Err.
process_request(id, notes, result) ==
    notes \o
    (IF result.tag = "Ok" THEN <<result.val>>
     ELSE <<Response_new_err(id, InternalErrorCode, to_string(result.val))>>)

\* The walk is made only for a known command with well-formed arguments.
Walks(params) ==
    params.tag # "malformed" /\ params.command \in Commands
    /\ params.arguments.tag = "WorkspaceArgs"

----------------------------------------------------------------------------
\* The server as wired: main_loop reads the connection on one thread, and
\* process_request runs on that thread up to its return.

MainInit == InitCommon /\ mainpc = "recv" /\ HandlersIdle /\ world = NoWorld

\* The context of the next dispatch call: they are used in order.
NextContext(c) == cpc[c] = "idle" /\ \A d \in Contexts : d < c => cpc[d] # "idle"

\* A main loop that goes on reading while a request is with the worker.
AfterDispatch_NoWait(sent_ok) == "recv"

\* send_request_to_worker blocks in block_on once the request is enqueued, and
\* returns at once when the send failed.
AfterDispatch(sent_ok) == IF sent_ok THEN "blocked" ELSE "recv"

\* Message::Request, not shutdown, workspace/executeCommand: process_request ->
\* execute_command, to its return when nothing is dispatched, and otherwise
\* through workspace_command and send_request_to_worker up to block_on.
MainRecvExecute(c) ==
    /\ mainpc = "recv"
    /\ NextContext(c)
    /\ \E params \in ExecuteRequests, walk \in WalkResults :
         LET step == execute_command(params, walk, c) IN
         /\ inbound' = [tag |-> "Request", params |-> params,
                        walk |-> IF Walks(params) THEN walk ELSE NotWalked]
         /\ IF step.tag = "Dispatch"
            THEN LET b == BuildRequest(params, step.uris, c) IN
                 /\ SubmitCore(c, b.request)
                 /\ sent' = IF SendSucceeds THEN <<b.note>>
                            ELSE LET end == workspace_command_result(c, SendError) IN
                                 process_request(c, <<b.note>> \o end.notes, Ok(end.response))
                 /\ mainpc' = AfterDispatch(SendSucceeds)
            ELSE /\ sent' = process_request(c, step.notes,
                                IF step.tag = "Response" THEN Ok(step.response[1])
                                ELSE Err(step.error[1]))
                 /\ cpc' = [cpc EXCEPT ![c] = "undispatched"]
                 /\ UNCHANGED <<mainpc, handlerVars, queue, rxAlive, wpc, inflight, wres, slot,
                                rxDropped, outcome, sends, tornAtSubmit, enqOrder, startOrder,
                                shutdownSent>>
    /\ mainCur' = c
    /\ UNCHANGED received

\* block_on returns on the main thread: generation_result builds the response,
\* execute_command sends it and the for loop takes its next message.  When the
\* reply slot was dropped, unwrap panics and nothing is sent.
MainResume ==
    /\ mainpc = "blocked"
    /\ AwaitCore(mainCur)
    /\ mainpc' = IF AfterWait(slot[mainCur]) = "panicked" THEN "panicked" ELSE "recv"
    /\ sent' = IF AfterWait(slot[mainCur]) = "panicked" THEN sent
               ELSE LET end == workspace_command_result(mainCur, slot[mainCur]) IN
                    sent \o process_request(mainCur, end.notes, Ok(end.response))
    /\ UNCHANGED <<mainCur, received, inbound>>

\* Message::Notification, Message::Response, or a request main_loop answers
\* without the worker: nothing is enqueued.
MainRecvOther ==
    /\ UNCHANGED <<handlerVars, frontVars>>
    /\ mainpc = "recv"
    /\ received < MaxOther
    /\ received' = received + 1
    /\ UNCHANGED <<queue, rxAlive, wpc, inflight, wres, cpc, slot, rxDropped, outcome, sends,
                   tornAtSubmit, enqOrder, startOrder, shutdownSent, mainpc, mainCur>>

\* connection.handle_shutdown(&req)? is true: Shutdown is sent, then break.
MainRecvShutdown ==
    /\ mainpc = "recv"
    /\ ShutdownCore
    /\ mainpc' = "joining"
    /\ UNCHANGED <<mainCur, received, frontVars>>

\* connection.receiver is exhausted: the for loop ends without a Shutdown.
MainConnClosed ==
    /\ UNCHANGED <<handlerVars, frontVars>>
    /\ mainpc = "recv"
    /\ mainpc' = "joining"
    /\ UNCHANGED <<queue, rxAlive, wpc, inflight, wres, cpc, slot, rxDropped, outcome, sends,
                   tornAtSubmit, enqOrder, startOrder, shutdownSent, mainCur, received>>

\* generator_thread.join().unwrap() returns once run has returned.
MainJoin ==
    /\ UNCHANGED <<handlerVars, frontVars>>
    /\ mainpc = "joining"
    /\ wpc = "stopped"
    /\ mainpc' = "returned"
    /\ UNCHANGED <<queue, rxAlive, wpc, inflight, wres, cpc, slot, rxDropped, outcome, sends,
                   tornAtSubmit, enqOrder, startOrder, shutdownSent, mainCur, received>>

\* connection.handle_shutdown(&req)? is an Err (the client sent something other
\* than exit after its shutdown request, or nothing for 30 s, or hung up): the ?
\* returns from main_loop before Shutdown is sent; generator_tx, the only
\* Sender, is dropped with main_loop's frame and the worker thread is detached.
MainShutdownError ==
    /\ UNCHANGED <<handlerVars, frontVars>>
    /\ mainpc = "recv"
    /\ mainpc' = "failed"
    /\ UNCHANGED <<queue, rxAlive, wpc, inflight, wres, cpc, slot, rxDropped, outcome, sends,
                   tornAtSubmit, enqOrder, startOrder, shutdownSent, mainCur, received>>

SendersAlive_Never == FALSE

\* Some Sender of the worker queue still exists: main_loop owns generator_tx
\* until it returns.
SendersAlive == mainpc # "failed"

\* rx.iter() yields None once the queue is empty and every Sender is gone: the
\* for loop ends without a Shutdown having been dequeued.
WorkerDisconnected ==
    /\ UNCHANGED <<handlerVars, frontVars>>
    /\ AtRecv
    /\ queue = <<>>
    /\ ~SendersAlive
    /\ wpc' = "exiting"
    /\ UNCHANGED <<queue, rxAlive, inflight, wres, cpc, slot, rxDropped, outcome, sends,
                   tornAtSubmit, enqOrder, startOrder, shutdownSent, mainpc, mainCur, received>>

MainNext ==
    \/ \E c \in Contexts : MainRecvExecute(c)
    \/ MainResume
    \/ MainRecvOther
    \/ MainRecvShutdown
    \/ MainConnClosed
    \/ MainJoin
    \/ MainShutdownError
    \/ WorkerDisconnected
    \/ WorkerDequeue
    \/ \E r \in inflight : WorkerHandle(r)
    \/ \E r \in inflight : WorkerReply(r)
    \/ WorkerExit

MainSpec == MainInit /\ [][MainNext]_vars

\* Liveness of the server as wired: the scheduler runs the worker thread and
\* the main thread whenever they can take a step; what the client sends, and
\* when, is the client's to choose.
FairMainSpec ==
    /\ MainSpec
    /\ WF_vars(WorkerDequeue)
    /\ WF_vars(\E r \in inflight : WorkerHandle(r))
    /\ WF_vars(\E r \in inflight : WorkerReply(r))
    /\ WF_vars(WorkerExit)
    /\ WF_vars(WorkerDisconnected)
    /\ WF_vars(MainResume)
    /\ WF_vars(MainJoin)

\* execute_command is public and takes any Sender of the worker queue: the
\* front end with a worker whose Shutdown another holder of a Sender sends,
\* at any time.
FrontNext == MainNext \/ SendShutdown

FrontSpec == MainInit /\ [][FrontNext]_vars

----------------------------------------------------------------------------
\* One handler call in detail: what it reads, what it asks of the engine and
\* of the chunker, and the value it returns.

Locations == FileUris \cup {"untitled:1"}

\* Longest list of sources in a request.
MaxUris == 2

\* The uris of a request, in order; a location can occur twice.
SourceLists == UNION { [1..k -> Locations] : k \in 0..MaxUris }

\* File texts, character by character: an empty file, a file without and one
\* with a final newline, and a file parse_solidity rejects.
SourceTexts == { <<>>, <<"A">>, <<"B", "\n">>, <<"#">> }
SourceDisks == UNION { [P -> SourceTexts] : P \in SUBSET FileUris }

\* CallGraph::new() filled by the pipeline: the graph of this source.  Its
\* nodes are the engine's; w.nodes is what the engine finds.
build_call_graph(source, w) ==
    IF ParseSolidity(source)
    THEN Ok([src |-> source, nodes |-> w.nodes])
    ELSE Err("EngineError")

\* A worker that keeps the graph of the request before and hands it out again.
get_or_build_call_graph_Cached(w, uris, prev) ==
    LET combined == CombinedSource(w.fs, uris, <<>>) IN
    IF combined.tag = "Err" THEN [builds |-> <<>>, graph |-> combined]
    ELSE IF prev # None THEN [builds |-> <<>>, graph |-> Ok(prev[1])]
    ELSE [builds |-> <<combined.val>>, graph |-> build_call_graph(combined.val, w)]

\* get_or_build_call_graph: builds lists the texts passed to build_call_graph.
\* prev, the graph of the request before, is not among self's fields and is
\* not consulted.
get_or_build_call_graph(w, uris, prev) ==
    LET combined == CombinedSource(w.fs, uris, <<>>) IN
    IF combined.tag = "Err" THEN [builds |-> <<>>, graph |-> combined]
    ELSE [builds |-> <<combined.val>>, graph |-> build_call_graph(combined.val, w)]

\* graph.to_dot("call_graph", &config) and write_diagram(to_sequence_diagram(graph)):
\* the engine's renderings, each determined by the graph.
generate_dot_diagram(graph) == [dot_of |-> graph]
write_diagram(graph) == [sequence_diagram_of |-> graph]

\* What a handler that stops at a failed get_or_build_call_graph has done.
AcquisitionFailed(acq) ==
    [builds |-> acq.builds, graph |-> None, chunker_calls |-> 0, mermaid |-> None,
     rendered |-> <<>>, result |-> acq.graph]

generate_call_graph_diagram(w, uris, prev) ==
    LET acq == get_or_build_call_graph(w, uris, prev) IN
    IF acq.graph.tag = "Err" THEN AcquisitionFailed(acq)
    ELSE [builds |-> acq.builds, graph |-> Some(acq.graph.val), chunker_calls |-> 0,
          mermaid |-> None, rendered |-> <<>>,
          result |-> Ok([dot |-> generate_dot_diagram(acq.graph.val)])]

\* Most chunks the chunker reports for one diagram.
MaxChunks == 2

\* What the chunker does when called: it fails, or it writes chunk_count
\* files under the directory it was given; chunk_001.mmd may or may not be
\* readable afterwards.
ChunkerAnswers ==
    { [tag |-> "Err", chunk_count |-> 0, readable |-> FALSE] }
    \cup [tag : {"Ok"}, chunk_count : 1..MaxChunks, readable : BOOLEAN]

\* traverse_mermaid::mermaid_chunker::chunk_mermaid_diagram(&output, chunk_dir)
chunk_mermaid_diagram(output, chunk_dir, w) ==
    IF w.chunker.tag = "Err" THEN Err("ChunkingError")
    ELSE Ok([chunk_count |-> w.chunker.chunk_count, output_dir |-> chunk_dir])

\* An adapter that reads the last chunk file back instead of the first.
ReadFirstChunk_LastChunk(output, chunking_result, w) ==
    IF w.chunker.readable
    THEN Ok([chunk |-> chunking_result.chunk_count, of |-> chunking_result.chunk_count,
             diagram |-> output])
    ELSE Err("ReadError")

\* std::fs::read_to_string(output_dir.join("chunk_001.mmd")): the first of the
\* pieces the chunker cut the diagram into.
ReadFirstChunk(output, chunking_result, w) ==
    IF w.chunker.readable
    THEN Ok([chunk |-> 1, of |-> chunking_result.chunk_count, diagram |-> output])
    ELSE Err("ReadError")

UnwrapOrElse(res, default) == IF res.tag = "Ok" THEN res.val ELSE default

MermaidConfig(no_chunk, chunk_dir) == [no_chunk |-> no_chunk, chunk_dir |-> chunk_dir]
MermaidConfigDefault == MermaidConfig(FALSE, "./traverse-output/sequence-diagrams/chunks/")

ChunkedMermaidResult(is_chunked, content, chunks, chunk_dir) ==
    [is_chunked |-> is_chunked, content |-> content, chunks |-> chunks, chunk_dir |-> chunk_dir]

MermaidChunk(id, content, filename) == [id |-> id, content |-> content, filename |-> filename]

\* An adapter that chunks exactly when told not to.
ChunkingWanted_Inverted(config) == config.no_chunk

\* if !config.no_chunk
ChunkingWanted(config) == ~config.no_chunk

\* An adapter that returns nothing of the diagram when chunking failed.
ChunkingFailedResult_Empty(output, config) == ChunkedMermaidResult(FALSE, <<>>, None, None)

\* An adapter that reports the chunk directory although chunking failed.
ChunkingFailedResult_KeepsDir(output, config) ==
    ChunkedMermaidResult(FALSE, output, None, Some(config.chunk_dir))

\* The Err(e) arm: the diagram as one piece.
ChunkingFailedResult(output, config) == ChunkedMermaidResult(FALSE, output, None, None)

\* TraverseAdapter::generate_mermaid_with_config; calls counts the calls of
\* chunk_mermaid_diagram.
generate_mermaid_with_config(graph, config, w) ==
    LET output == write_diagram(graph) IN
    IF ChunkingWanted(config)
    THEN LET chunking_result == chunk_mermaid_diagram(output, config.chunk_dir, w) IN
         IF chunking_result.tag = "Ok"
         THEN LET first_chunk_content ==
                      UnwrapOrElse(ReadFirstChunk(output, chunking_result.val, w), output) IN
              [calls |-> 1,
               res |-> Ok(ChunkedMermaidResult(
                   TRUE, first_chunk_content,
                   Some(<<MermaidChunk(1, output,
                          Some(<<chunking_result.val.chunk_count, " chunks generated">>))>>),
                   Some(chunking_result.val.output_dir)))]
         ELSE [calls |-> 1, res |-> Ok(ChunkingFailedResult(output, config))]
    ELSE [calls |-> 0, res |-> Ok(ChunkedMermaidResult(FALSE, output, None, None))]

generate_mermaid_flowchart(w, uris, no_chunk, prev) ==
    LET acq == get_or_build_call_graph(w, uris, prev) IN
    IF acq.graph.tag = "Err" THEN AcquisitionFailed(acq)
    ELSE LET config == MermaidConfig(no_chunk, "./mermaid-chunks/")
             m == generate_mermaid_with_config(acq.graph.val, config, w)
             result == m.res.val IN
         [builds |-> acq.builds, graph |-> Some(acq.graph.val), chunker_calls |-> m.calls,
          mermaid |-> Some(result), rendered |-> <<>>,
          result |->
              IF result.is_chunked
              THEN Ok([mermaid |-> result.content, is_chunked |-> TRUE,
                       chunks |-> ToJson(result.chunks),
                       chunk_dir |-> ToJson(result.chunk_dir)])
              ELSE Ok([mermaid |-> result.content, is_chunked |-> FALSE])]

generate_all_diagrams(w, uris, prev) ==
    LET acq == get_or_build_call_graph(w, uris, prev) IN
    IF acq.graph.tag = "Err" THEN AcquisitionFailed(acq)
    ELSE LET dot_diagram == generate_dot_diagram(acq.graph.val)
             m == generate_mermaid_with_config(acq.graph.val, MermaidConfigDefault, w)
             mermaid_result == m.res.val IN
         [builds |-> acq.builds, graph |-> Some(acq.graph.val), chunker_calls |-> m.calls,
          mermaid |-> Some(mermaid_result), rendered |-> <<>>,
          result |-> Ok([dot |-> dot_diagram,
                         mermaid |-> mermaid_result.content,
                         is_chunked |-> mermaid_result.is_chunked,
                         chunk_dir |-> ToJson(mermaid_result.chunk_dir)])]

\* Strings the storage report is made of, character by character.
Global ==
    <<"G", "l", "o", "b", "a", "l">>
UnknownVarOpen ==
    <<"U", "n", "k", "n", "o", "w", "n", "V", "a", "r", "(">>
ReportTitle ==
    <<"#", " ", "S", "t", "o", "r", "a", "g", "e", " ", "A", "c", "c", "e",
      "s", "s", " ", "A", "n", "a", "l", "y", "s", "i", "s", "\n", "\n">>
FilesAnalyzedOpen ==
    <<"*", "*", "F", "i", "l", "e", "s", " ", "a", "n", "a", "l", "y", "z",
      "e", "d", ":", "*", "*", " ">>
FilesAnalyzedClose ==
    <<" ", "S", "o", "l", "i", "d", "i", "t", "y", " ", "f", "i", "l", "e",
      "s", "\n", "\n">>
TableHead ==
    <<"|", " ", "E", "n", "d", "p", "o", "i", "n", "t", " ", "|", " ", "R",
      "e", "a", "d", "s", " ", "|", " ", "W", "r", "i", "t", "e", "s", " ",
      "|", "\n">>
TableRule ==
    <<"|", "-", "-", "-", "-", "-", "-", "-", "-", "-", "-", "|", "-", "-",
      "-", "-", "-", "-", "-", "|", "-", "-", "-", "-", "-", "-", "-", "-",
      "|", "\n">>

\* The byte of a character: str compares byte by byte.
Byte(ch) ==
    CASE ch = "$" -> 36 [] ch = "." -> 46 [] ch = "A" -> 65 [] ch = "G" -> 71
      [] ch = "a" -> 97 [] ch = "b" -> 98 [] ch = "f" -> 102 [] ch = "l" -> 108
      [] ch = "o" -> 111 [] ch = "r" -> 114

\* a <= b in the order of String's Ord.
RECURSIVE StrLeq(_, _)
StrLeq(a, b) ==
    IF a = <<>> THEN TRUE
    ELSE IF b = <<>> THEN FALSE
    ELSE IF Byte(a[1]) # Byte(b[1]) THEN Byte(a[1]) < Byte(b[1])
    ELSE StrLeq(Tail(a), Tail(b))

\* Display of a usize.
Digits == <<"0", "1", "2", "3", "4", "5", "6", "7", "8", "9">>
RECURSIVE ToDecimal(_)
ToDecimal(n) ==
    IF n < 10 THEN <<Digits[n + 1]>>
    ELSE ToDecimal(n \div 10) \o <<Digits[(n % 10) + 1]>>

\* [String]::join(sep)
RECURSIVE Join(_, _)
Join(vec, sep) ==
    IF vec = <<>> THEN <<>>
    ELSE IF Len(vec) = 1 THEN vec[1]
    ELSE vec[1] \o sep \o Join(Tail(vec), sep)

UnwrapOr(opt, default) == IF opt = None THEN default ELSE opt[1]

\* A node of the call graph, as far as the report reads it.
Node(contract_name, name) == [contract_name |-> contract_name, name |-> name]

\* call_graph.nodes.get(id): nodes is a Vec and a node's id is its index.
NodesGet(call_graph, id) ==
    IF id + 1 \in DOMAIN call_graph.nodes THEN Some(call_graph.nodes[id + 1]) ELSE None

\* format!("{}.{}", n.contract_name.as_deref().unwrap_or(default), n.name)
QualifiedName(n, default) == UnwrapOr(n.contract_name, default) \o <<".">> \o n.name

\* A key that leaves the contract out.
SortKey_NameOnly(call_graph, node_id) ==
    LET n == NodesGet(call_graph, node_id) IN
    IF n = None THEN <<>> ELSE n[1].name

\* The closure of sort_by_key: String::new for a node the graph does not hold.
SortKey(call_graph, node_id) ==
    LET n == NodesGet(call_graph, node_id) IN
    IF n = None THEN <<>> ELSE QualifiedName(n[1], Global)

\* An unstable sort: an entry goes before the entries of equal key.
StaysBefore_Unstable(head_key, key) == StrLeq(head_key, key) /\ head_key # key

\* In a stable sort the earlier entry stays before a later one unless its key
\* is greater.
StaysBefore(head_key, key) == StrLeq(head_key, key)

\* sort_by_key as a stable insertion sort.
RECURSIVE InsertByKey(_, _, _)
InsertByKey(sorted, e, call_graph) ==
    IF sorted = <<>> THEN <<e>>
    ELSE IF StaysBefore(SortKey(call_graph, Head(sorted).id), SortKey(call_graph, e.id))
         THEN <<Head(sorted)>> \o InsertByKey(Tail(sorted), e, call_graph)
         ELSE <<e>> \o sorted

RECURSIVE SortByKey(_, _)
SortByKey(entries, call_graph) ==
    IF entries = <<>> THEN <<>>
    ELSE InsertByKey(SortByKey(SubSeq(entries, 1, Len(entries) - 1), call_graph),
                     entries[Len(entries)], call_graph)

\* A label that never says UnknownVar.
AccessLabel_SkipsUnknown(call_graph, id) ==
    LET n == NodesGet(call_graph, id) IN
    IF n = None THEN <<"?">> ELSE QualifiedName(n[1], <<"?">>)

\* The closure mapped over summary.reads and summary.writes.
AccessLabel(call_graph, id) ==
    LET n == NodesGet(call_graph, id) IN
    IF n = None THEN UnknownVarOpen \o ToDecimal(id) \o <<")">>
    ELSE QualifiedName(n[1], <<"?">>)

AccessLabels(call_graph, ids) == [i \in DOMAIN ids |-> AccessLabel(call_graph, ids[i])]

\* format!("| {} | {} | {} |\n", endpoint_name, reads_vec.join(", "), writes_vec.join(", "))
TableRow(call_graph, func_node, summary) ==
    <<"|", " ">> \o QualifiedName(func_node, Global)
    \o <<" ", "|", " ">> \o Join(AccessLabels(call_graph, summary.reads), <<",", " ">>)
    \o <<" ", "|", " ">> \o Join(AccessLabels(call_graph, summary.writes), <<",", " ">>)
    \o <<" ", "|", "\n">>

\* The for loop over sorted_entries: the rows pushed, each with the id of its
\* entry.  An entry whose own node is not in call_graph.nodes pushes nothing.
RECURSIVE TableRows(_, _)
TableRows(call_graph, sorted_entries) ==
    IF sorted_entries = <<>> THEN <<>>
    ELSE LET e == Head(sorted_entries)
             func_node == NodesGet(call_graph, e.id) IN
         (IF func_node # None
          THEN <<[id |-> e.id, row |-> TableRow(call_graph, func_node[1], e)]>>
          ELSE <<>>)
         \o TableRows(call_graph, Tail(sorted_entries))

RECURSIVE Concat(_)
Concat(texts) == IF texts = <<>> THEN <<>> ELSE Head(texts) \o Concat(Tail(texts))

\* traverse_graph::storage_access::analyze_storage_access(&call_graph), in the
\* order storage_summary_map.iter() yields its entries.
analyze_storage_access(call_graph, w) == w.summary

generate_storage_layout(w, uris, prev) ==
    LET acq == get_or_build_call_graph(w, uris, prev) IN
    IF acq.graph.tag = "Err" THEN AcquisitionFailed(acq)
    ELSE LET call_graph == acq.graph.val
             storage_summary_map == analyze_storage_access(call_graph, w)
             sorted_entries == SortByKey(storage_summary_map, call_graph)
             rows == TableRows(call_graph, sorted_entries)
             md == ReportTitle
                   \o FilesAnalyzedOpen \o ToDecimal(Len(uris)) \o FilesAnalyzedClose
                   \o TableHead \o TableRule
                   \o Concat([i \in DOMAIN rows |-> rows[i].row]) IN
         [builds |-> acq.builds, graph |-> Some(call_graph), chunker_calls |-> 0,
          mermaid |-> None, rendered |-> rows, result |-> Ok(md)]

----------------------------------------------------------------------------
\* The match arms of GeneratorWorker::run, one handler call each.  world is
\* drawn once, so that a run is shown its handlers on every disk and with every
\* answer of the engine and of the chunker.

RunOf(kind, uris, no_chunk, run) ==
    [kind |-> kind, uris |-> uris, no_chunk |-> no_chunk,
     builds |-> run.builds, graph |-> run.graph, chunker_calls |-> run.chunker_calls,
     mermaid |-> run.mermaid, rendered |-> run.rendered, result |-> run.result]

HandlerDone(kind, uris, no_chunk, run) ==
    /\ hrun' = RunOf(kind, uris, no_chunk, run)
    /\ hprev' = IF run.graph # None THEN run.graph ELSE hprev
    /\ UNCHANGED <<frontVars, world, queue, rxAlive, wpc, inflight, wres, cpc, slot, rxDropped, outcome,
                   sends, tornAtSubmit, enqOrder, startOrder, shutdownSent, mainpc, mainCur,
                   received>>

CallGraphDiagramArm(uris) ==
    HandlerDone("GenerateCallGraphDiagram", uris, FALSE,
                generate_call_graph_diagram(world, uris, hprev))

MermaidFlowchartArm(uris, no_chunk) ==
    HandlerDone("GenerateMermaidFlowchart", uris, no_chunk,
                generate_mermaid_flowchart(world, uris, no_chunk, hprev))

AllDiagramsArm(uris) ==
    HandlerDone("GenerateAllDiagrams", uris, FALSE,
                generate_all_diagrams(world, uris, hprev))

StorageLayoutArm(uris) ==
    HandlerDone("GenerateStorageLayout", uris, FALSE,
                generate_storage_layout(world, uris, hprev))

HandlerInit(worlds) == InitCommon /\ mainpc = "off" /\ HandlersIdle /\ world \in worlds

\* Source acquisition: every list of up to MaxUris locations on every disk.
ChunkerDown == [tag |-> "Err", chunk_count |-> 0, readable |-> FALSE]
AcqWorlds == [fs : SourceDisks, nodes : {<<>>}, summary : {<<>>}, chunker : {ChunkerDown}]

AcqInit == HandlerInit(AcqWorlds)

AcqNext ==
    \/ \E uris \in SourceLists : CallGraphDiagramArm(uris)
    \/ \E uris \in SourceLists, no_chunk \in BOOLEAN : MermaidFlowchartArm(uris, no_chunk)
    \/ \E uris \in SourceLists : AllDiagramsArm(uris)
    \/ \E uris \in SourceLists : StorageLayoutArm(uris)

AcqSpec == AcqInit /\ [][AcqNext]_vars

\* Sequence-diagram rendering: every answer of the chunker.
RenderWorlds == [fs : FileSystems, nodes : {<<>>}, summary : {<<>>}, chunker : ChunkerAnswers]

RenderInit == HandlerInit(RenderWorlds)

RenderNext ==
    \/ \E uris \in UriLists, no_chunk \in BOOLEAN : MermaidFlowchartArm(uris, no_chunk)
    \/ \E uris \in UriLists : AllDiagramsArm(uris)

RenderSpec == RenderInit /\ [][RenderNext]_vars

\* The storage report: call graphs of up to three nodes (two functions of one
\* name, a function outside any contract, a contract name holding "$") and
\* summaries of up to MaxEntries entries that also name ids the graph lacks.
Foo == <<"f", "o", "o">>
Bar == <<"b", "a", "r">>
NodeTables ==
    { <<>>,
      <<Node(Some(<<"A">>), Foo), Node(Some(<<"A">>), Bar)>>,
      <<Node(Some(<<"A">>), Foo), Node(Some(<<"A">>), Foo), Node(Some(<<"A">>), Bar)>>,
      <<Node(None, Foo), Node(Some(<<"A">>), Foo), Node(Some(<<"A", "$">>), Foo)>>,
      <<Node(Some(<<"A">>), Bar), Node(None, Bar), Node(Some(<<"A", "$">>), Bar)>> }

MaxEntries == 2
EntryIds == {0, 1, 2, 12}
Accesses ==
    { [reads |-> <<>>, writes |-> <<>>],
      [reads |-> <<1, 12>>, writes |-> <<0>>],
      [reads |-> <<12, 2, 0>>, writes |-> <<12>>] }
SummaryEntries == { [id |-> i, reads |-> a.reads, writes |-> a.writes] : i \in EntryIds, a \in Accesses }

\* A map holds one entry per key.
Summaries ==
    { m \in UNION { [1..k -> SummaryEntries] : k \in 0..MaxEntries } :
        \A i, j \in DOMAIN m : i # j => m[i].id # m[j].id }

StorageWorlds == [fs : FileSystems, nodes : NodeTables, summary : Summaries, chunker : {ChunkerDown}]

StorageInit == HandlerInit(StorageWorlds)

StorageNext == \E uris \in UriLists : StorageLayoutArm(uris)

StorageSpec == StorageInit /\ [][StorageNext]_vars

----------------------------------------------------------------------------
\* Properties.

Enqueued(c) == \E i \in DOMAIN enqOrder : enqOrder[i] = c
Started(c) == \E i \in DOMAIN startOrder : startOrder[i] = c
InFlightCtx == { r.ctx : r \in inflight }

\* c's message was enqueued before d's.
EnqueuedBefore(c, d) ==
    \E i, j \in DOMAIN enqOrder : i < j /\ enqOrder[i] = c /\ enqOrder[j] = d

\* The worker has left its loop.
WorkerLeftLoop == wpc \in {"exiting", "stopped"} \/ ~rxAlive

\* C1: for every request the worker dequeues it calls tx.send on the request's
\* reply slot exactly once (never zero times, never twice), on a success and on
\* an error alike, and it has done so by the time it is back at the dequeue.
C1_ReplyExactlyOnce ==
    \A c \in Contexts :
        /\ sends[c] <= 1
        /\ sends[c] = 1 => Started(c)
        /\ (Started(c) /\ c \notin InFlightCtx) => sends[c] = 1
        /\ (Started(c) /\ wpc = "recv") => sends[c] = 1

\* One request answered with an error and one with a success, once each.
C1_Witness ==
    \E c, d \in Contexts :
        /\ sends[c] = 1 /\ slot[c].tag = "Err"
        /\ sends[d] = 1 /\ slot[d].tag = "Ok"

\* C2: requests are serviced in enqueue order: the worker dequeues messages in
\* the order they were enqueued, and when it starts a request every request
\* enqueued before it has been started and replied to.
C2_FifoService ==
    /\ \A k \in DOMAIN startOrder : startOrder[k] = enqOrder[k]
    /\ \A c, d \in Contexts :
        (EnqueuedBefore(c, d) /\ Started(d)) => (Started(c) /\ sends[c] = 1)

\* Two requests were in the queue together and the later one has been started.
C2_Witness ==
    \E c, d \in Contexts :
        EnqueuedBefore(c, d) /\ Started(d) /\ cpc[c] = "waiting" /\ cpc[d] = "waiting"

\* C3: when the worker leaves its loop, every request enqueued before the
\* Shutdown message has been processed and replied to, no handler is in flight,
\* and the Shutdown was taken at a dequeue, in its turn.
C3_ShutdownAfterEarlierRequests ==
    WorkerLeftLoop =>
        /\ inflight = {}
        /\ Started(ShutdownId)
        /\ \A c \in Contexts : EnqueuedBefore(c, ShutdownId) => sends[c] = 1

\* The worker stopped on a Shutdown that was enqueued behind two requests.
C3_Witness ==
    /\ wpc = "stopped"
    /\ Len(enqOrder) >= 3
    /\ enqOrder[3] = ShutdownId

\* C4: every request accepted onto the queue eventually has a success or an
\* error returned to its submitter.
C4_EveryAcceptedRequestGetsAnOutcome ==
    \A c \in Contexts :
        Enqueued(c) ~> (cpc[c] = "returned" /\ outcome[c].tag \in {"Ok", "Err"})

\* C5: a request enqueued behind Shutdown is never processed by a handler, and
\* its dispatch call returns the worker-unavailable error to its caller: the
\* calling thread does not crash.
C5_BehindShutdownGetsWorkerUnavailable ==
    \A c \in Contexts :
        EnqueuedBefore(ShutdownId, c) =>
            /\ ~Started(c)
            /\ sends[c] = 0
            /\ cpc[c] # "panicked"
            /\ cpc[c] = "returned" => outcome[c] = SendError

\* C6: a submission made once the worker has exited fails at once with the
\* worker-unavailable error: the request is not enqueued, no reply is ever
\* written for it, and the caller never waits.
C6_SubmitAfterExitFails ==
    \A c \in Contexts :
        tornAtSubmit[c] =>
            /\ cpc[c] = "returned"
            /\ outcome[c] = SendError
            /\ ~Enqueued(c)
            /\ sends[c] = 0
            /\ slot[c].tag \notin {"Ok", "Err"}

\* A dispatch call was made after the worker had exited.
C6_Witness == \E c \in Contexts : tornAtSubmit[c] /\ cpc[c] = "returned"

\* C7: while the worker is analysing a request the front end is not blocked:
\* the main loop is at its receive, able to read the next inbound message.
C7_FrontEndNotBlockedDuringAnalysis ==
    inflight # {} => mainpc = "recv"

\* C8: a handler error does not stop the worker: the step that replies with
\* an error leaves the worker at its dequeue with the Receiver alive, having
\* written that one error to the slot; and a caller that got an error got it
\* from exactly one reply.
C8_HandlerErrorKeepsWorkerRunning ==
    /\ [][\A r \in inflight :
            (wres[r.ctx].tag = "Err" /\ r \notin inflight') =>
                /\ wpc' = "recv"
                /\ rxAlive'
                /\ sends'[r.ctx] = 1
                /\ slot'[r.ctx] = wres[r.ctx]]_vars
    /\ [](\A c \in Contexts :
            (cpc[c] = "returned" /\ outcome[c].tag = "Err") =>
                /\ sends[c] = 1
                /\ outcome[c].val \in {"Invalid URI", "ReadError", "EngineError"})

\* A request failed, and the request queued behind it was then answered with
\* a success.
C8_Witness ==
    \E c, d \in Contexts :
        /\ EnqueuedBefore(c, d)
        /\ cpc[c] = "returned" /\ outcome[c].tag = "Err"
        /\ cpc[d] = "returned" /\ outcome[d].tag = "Ok"

\* C9: a request whose submitter dropped its Receiver is still processed and
\* replied to once, nothing is delivered, and the worker is not stopped by it:
\* it leaves its loop only on a Shutdown it dequeued.
C9_AbandonedReplyDiscarded ==
    /\ \A c \in Contexts :
        (rxDropped[c] /\ Started(c) /\ c \notin InFlightCtx) =>
            /\ sends[c] = 1
            /\ outcome[c] = NoResult
    /\ WorkerLeftLoop => Started(ShutdownId)
    /\ wpc = "stopped" => ~rxAlive

\* A reply to a dropped Receiver was discarded (the slot holds nothing), and
\* the request behind it was then answered.
C9_Witness ==
    \E c, d \in Contexts :
        /\ rxDropped[c] /\ sends[c] = 1 /\ slot[c] = ClosedSlot
        /\ EnqueuedBefore(c, d)
        /\ sends[d] = 1 /\ slot[d].tag \in {"Ok", "Err"}

\* C10: at most one handler is executing at any time, whatever the number of
\* dispatchers waiting, and a handler result exists only for the request the
\* worker thread is on.
C10_OneHandlerAtATime ==
    /\ Cardinality(inflight) <= 1
    /\ inflight # {} <=> wpc \in {"handle", "reply"}
    /\ \A c \in Contexts : wres[c] # NoResult => c \in InFlightCtx

\* A handler is in flight while every dispatcher is waiting for its reply.
C10_Witness ==
    /\ inflight # {}
    /\ \A c \in Contexts : cpc[c] = "waiting"

\* C11 as stated: the worker leaves Running only by dequeuing a Shutdown
\* message.
C11_LeavesRunningOnlyByShutdown == WorkerLeftLoop => Started(ShutdownId)

\* C11 (amended): the worker starts in Running; it leaves Running only by
\* dequeuing a Shutdown message or, with the queue drained and nothing in
\* flight, because every Sender of its queue has been dropped; once it has
\* left Running it never dequeues, handles or answers another request.
C11_LeavesRunningByShutdownOrDisconnect ==
    /\ wpc = "recv"
    /\ [](WorkerLeftLoop =>
            \/ Started(ShutdownId)
            \/ mainpc = "failed" /\ queue = <<>> /\ inflight = {})
    /\ [][WorkerLeftLoop =>
            /\ WorkerLeftLoop'
            /\ startOrder' = startOrder
            /\ inflight' = inflight
            /\ wres' = wres
            /\ sends' = sends]_vars

\* The worker has stopped without ever having dequeued a Shutdown.
C11_Witness ==
    /\ wpc = "stopped"
    /\ ~Started(ShutdownId)
    /\ \E c \in Contexts : Started(c) /\ sends[c] = 1

\* A handler has run / every location of its request was a readable file.
HandlerRan == hrun.kind # "None"
AllReadable == \A i \in DOMAIN hrun.uris : hrun.uris[i] \in DOMAIN world.fs

\* Where the i-th file's content begins in the concatenation, less one.
RECURSIVE OffsetOf(_)
OffsetOf(i) ==
    IF i = 1 THEN 0 ELSE OffsetOf(i - 1) + Len(world.fs[hrun.uris[i - 1]]) + 1

\* C12: for any ordered list of readable files, the text passed to the
\* call-graph builder is the files' contents in list order, each followed by
\* exactly one newline, with nothing else between or around them.
C12_ConcatenationInListOrder ==
    (HandlerRan /\ AllReadable) =>
        /\ Len(hrun.builds) >= 1
        /\ LET text == hrun.builds[1]
               n == Len(hrun.uris) IN
           /\ Len(text) = OffsetOf(n + 1)
           /\ \A i \in 1..n :
                LET content == world.fs[hrun.uris[i]] IN
                /\ SubSeq(text, OffsetOf(i) + 1, OffsetOf(i) + Len(content)) = content
                /\ text[OffsetOf(i) + Len(content) + 1] = "\n"

\* Two different files, one ending in a newline and one empty, were combined.
C12_Witness ==
    /\ HandlerRan /\ AllReadable
    /\ hrun.uris = <<"b.sol", "a.sol">>
    /\ world.fs["b.sol"] = <<"B", "\n">>
    /\ world.fs["a.sol"] = <<>>
    /\ hrun.builds = << <<"B", "\n", "\n", "\n">> >>

\* The error of the first location, in list order, that is no file path or
\* cannot be read.
FirstBad == CHOOSE i \in DOMAIN hrun.uris :
                /\ hrun.uris[i] \notin DOMAIN world.fs
                /\ \A j \in 1..(i - 1) : hrun.uris[j] \in DOMAIN world.fs
FirstError ==
    IF hrun.uris[FirstBad] \in FileUris THEN "ReadError" ELSE "Invalid URI"

\* C13: source acquisition is all-or-nothing: when a location of the list
\* cannot be resolved or read the request fails with the first error in list
\* order, build_call_graph is not called, and nothing is rendered from the
\* files that could be read.
C13_AcquisitionAllOrNothing ==
    (HandlerRan /\ ~AllReadable) =>
        /\ hrun.result = Err(FirstError)
        /\ hrun.builds = <<>>
        /\ hrun.graph = None
        /\ hrun.chunker_calls = 0
        /\ hrun.mermaid = None
        /\ hrun.rendered = <<>>

\* A readable file is followed by one that is missing, and a missing file by
\* a location that is no file path.
C13_Witness ==
    /\ HandlerRan
    /\ Len(hrun.uris) = 2
    /\ hrun.uris[1] \in FileUris /\ hrun.uris[1] \notin DOMAIN world.fs
    /\ hrun.uris[2] \notin FileUris
    /\ "a.sol" \in DOMAIN world.fs
    /\ hrun.result = Err("ReadError")

\* C17: every request whose source acquisition succeeds calls build_call_graph
\* exactly once, a combined request included, and renders from the graph of
\* that call, never from the graph of the request before.
C17_OneBuildPerRequest ==
    (HandlerRan /\ AllReadable) =>
        /\ Len(hrun.builds) = 1
        /\ hrun.graph # None =>
              /\ hrun.graph[1] = [src |-> hrun.builds[1], nodes |-> world.nodes]
              /\ hprev = hrun.graph
        /\ hrun.graph = None => hrun.result = Err("EngineError")

\* A combined request has rendered both diagrams from one build.
C17_Witness ==
    /\ hrun.kind = "GenerateAllDiagrams"
    /\ AllReadable
    /\ Len(hrun.uris) = 2
    /\ Len(hrun.builds) = 1
    /\ hrun.result.tag = "Ok"
    /\ hrun.result.val.dot = generate_dot_diagram(hrun.graph[1])
    /\ hrun.result.val.mermaid = write_diagram(hrun.graph[1])

\* C14: a flowchart request with no_chunk = true never calls the chunker and,
\* when it yields a result, yields one with is_chunked = false, whatever the
\* chunker would have answered.
C14_NoChunkNeverChunks ==
    (hrun.kind = "GenerateMermaidFlowchart" /\ hrun.no_chunk) =>
        /\ hrun.chunker_calls = 0
        /\ hrun.graph # None =>
              /\ hrun.mermaid # None /\ ~hrun.mermaid[1].is_chunked
              /\ hrun.result.tag = "Ok" /\ hrun.result.val.is_chunked = FALSE

\* A no_chunk flowchart was produced where the chunker would have succeeded.
C14_Witness ==
    /\ hrun.kind = "GenerateMermaidFlowchart" /\ hrun.no_chunk
    /\ world.chunker.tag = "Ok"
    /\ hrun.result.tag = "Ok" /\ hrun.result.val.is_chunked = FALSE

\* C15: when the chunker fails, a flowchart or combined request whose graph
\* was built still succeeds, with is_chunked = false and the whole sequence
\* diagram as its content; the chunker's error is not returned.
C15_ChunkerFailureDegrades ==
    (/\ hrun.kind \in {"GenerateMermaidFlowchart", "GenerateAllDiagrams"}
     /\ hrun.graph # None
     /\ world.chunker.tag = "Err") =>
        /\ hrun.result.tag = "Ok"
        /\ hrun.result.val.is_chunked = FALSE
        /\ hrun.result.val.mermaid = write_diagram(hrun.graph[1])
        /\ hrun.result.val.mermaid # <<>>

\* The chunker was called by a combined request and failed.
C15_Witness ==
    /\ hrun.kind = "GenerateAllDiagrams"
    /\ hrun.chunker_calls = 1
    /\ world.chunker.tag = "Err"
    /\ hrun.result.tag = "Ok" /\ hrun.result.val.is_chunked = FALSE

\* C16: every ChunkedMermaidResult, on the no_chunk path, after a successful
\* and after a failed chunker call, has chunks and chunk_dir absent when
\* is_chunked is false and chunk_dir set when is_chunked is true.
C16_ChunkedResultInvariant ==
    (HandlerRan /\ hrun.mermaid # None) =>
        LET r == hrun.mermaid[1] IN
        /\ ~r.is_chunked => (r.chunks = None /\ r.chunk_dir = None)
        /\ r.is_chunked => r.chunk_dir # None

\* A chunked result naming its directory.
C16_Witness ==
    /\ HandlerRan /\ hrun.mermaid # None
    /\ hrun.mermaid[1].is_chunked
    /\ hrun.mermaid[1].chunk_dir = Some("./mermaid-chunks/")
    /\ hrun.chunker_calls = 1

\* A storage report was produced.
ReportMade == hrun.kind = "GenerateStorageLayout" /\ hrun.result.tag = "Ok"

\* The node of id is in the graph the report was made from.
Present(id) == id < Len(world.nodes)

\* The key of a present node, "<contractName or Global>.<nodeName>".
KeyOf(id) ==
    LET n == world.nodes[id + 1] IN
    (IF n.contract_name = None THEN Global ELSE n.contract_name[1]) \o <<".">> \o n.name

\* a is before b in lexicographic byte order / a is b or before b.
LexLess(a, b) ==
    \E k \in 1..(Len(a) + 1) :
        /\ k <= Len(b)
        /\ \A i \in 1..(k - 1) : a[i] = b[i]
        /\ k = Len(a) + 1 \/ Byte(a[k]) < Byte(b[k])
LexLeq(a, b) == a = b \/ LexLess(a, b)

\* Where the entry of id stands in the engine's iteration order.
SummaryIndex(id) == CHOOSE i \in DOMAIN world.summary : world.summary[i].id = id

\* C18: the rows of the table are in ascending lexicographic order of the key
\* "<contractName or Global>.<nodeName>" each row starts with (an A.bar row is
\* before an A.foo row), and rows of equal key are in the engine's iteration
\* order.
C18_RowsSortedByKeyStably ==
    ReportMade =>
        /\ \A i \in DOMAIN hrun.rendered :
              LET key == KeyOf(hrun.rendered[i].id) IN
              SubSeq(hrun.rendered[i].row, 1, Len(key) + 4)
                  = <<"|", " ">> \o key \o <<" ", "|">>
        /\ \A i, j \in DOMAIN hrun.rendered :
              i < j =>
                LET a == hrun.rendered[i].id
                    b == hrun.rendered[j].id IN
                /\ LexLeq(KeyOf(a), KeyOf(b))
                /\ KeyOf(a) = KeyOf(b) => SummaryIndex(a) < SummaryIndex(b)

\* The engine listed A.foo before A.bar and the table has A.bar first.
C18_Witness ==
    /\ ReportMade
    /\ Len(hrun.rendered) = 2
    /\ KeyOf(hrun.rendered[1].id) = <<"A", ".", "b", "a", "r">>
    /\ KeyOf(hrun.rendered[2].id) = <<"A", ".", "f", "o", "o">>
    /\ SummaryIndex(hrun.rendered[2].id) < SummaryIndex(hrun.rendered[1].id)

\* The decimal numeral of n, without leading zeros.
NumeralValue(ds) ==
    IF Len(ds) = 1 THEN ds[1] ELSE 10 * ds[1] + ds[2]
DecimalOf(n) ==
    LET ds == CHOOSE d \in ((0..9) \X (0..9)) \cup { <<k>> : k \in 0..9 } :
                  NumeralValue(d) = n /\ (Len(d) = 2 => d[1] # 0) IN
    [i \in DOMAIN ds |-> Digits[ds[i] + 1]]

\* The label the report is to show for an id among reads or writes.
ExpectedLabel(id) ==
    IF Present(id)
    THEN LET n == world.nodes[id + 1] IN
         (IF n.contract_name = None THEN <<"?">> ELSE n.contract_name[1]) \o <<".">> \o n.name
    ELSE UnknownVarOpen \o DecimalOf(id) \o <<")">>

\* The labels of ids, in order, with ", " between neighbours.
ExpectedList(ids) ==
    Concat([k \in 1..(2 * Len(ids) - 1) |->
               IF k % 2 = 1 THEN ExpectedLabel(ids[(k + 1) \div 2]) ELSE <<",", " ">>])

\* C19: in a row, an id among the node's reads or writes that has no node in
\* the call graph is shown as UnknownVar(<id>), an id that has one as
\* "<contractName or ?>.<nodeName>"; the labels are in the engine's order,
\* joined by ", "; and the request succeeds with the rows in its report.
C19_AccessLabels ==
    (hrun.kind = "GenerateStorageLayout" /\ hrun.graph # None) =>
        /\ hrun.result.tag = "Ok"
        /\ LET md == hrun.result.val
               rows == Concat([i \in DOMAIN hrun.rendered |-> hrun.rendered[i].row]) IN
           SubSeq(md, Len(md) - Len(rows) + 1, Len(md)) = rows
        /\ \A i \in DOMAIN hrun.rendered :
              LET id == hrun.rendered[i].id
                  e == world.summary[SummaryIndex(id)] IN
              hrun.rendered[i].row =
                  <<"|", " ">> \o KeyOf(id)
                  \o <<" ", "|", " ">> \o ExpectedList(e.reads)
                  \o <<" ", "|", " ">> \o ExpectedList(e.writes)
                  \o <<" ", "|", "\n">>

\* A row listing an unknown id before two known ones.
C19_Witness ==
    /\ ReportMade
    /\ Len(hrun.rendered) = 1
    /\ hrun.rendered[1].row =
        <<"|", " ", "G", "l", "o", "b", "a", "l", ".", "f", "o", "o", " ",
          "|", " ", "U", "n", "k", "n", "o", "w", "n", "V", "a", "r", "(",
          "1", "2", ")", ",", " ", "A", "$", ".", "f", "o", "o", ",", " ",
          "?", ".", "f", "o", "o", " ", "|", " ", "U", "n", "k", "n", "o",
          "w", "n", "V", "a", "r", "(", "1", "2", ")", " ", "|", "\n">>

\* C20: a summary entry whose own node id is not among the call graph's nodes
\* still has a row in the report, before the row of every known node, and the
\* table has as many rows as the summary has entries.
C20_AbsentNodeGetsPlaceholderRow ==
    ReportMade =>
        /\ Len(hrun.rendered) = Len(world.summary)
        /\ \A k \in DOMAIN world.summary :
              ~Present(world.summary[k].id) =>
                \E i \in DOMAIN hrun.rendered :
                    /\ hrun.rendered[i].id = world.summary[k].id
                    /\ \A j \in DOMAIN hrun.rendered :
                          Present(hrun.rendered[j].id) => i < j

\* The responses among the messages sent for the last request.
Responses == SelectSeq(sent, LAMBDA m : m.msg = "Response")

\* main_loop is done with the last workspace/executeCommand request it read.
RequestDone ==
    /\ inbound.tag = "Request"
    /\ cpc[mainCur] \in {"undispatched", "returned", "panicked"}

\* The last request was answered with exactly this error code and message.
AnsweredErr(code, message) ==
    /\ Len(Responses) = 1
    /\ Responses[1].error = Some([code |-> code, message |-> message])

\* C21: an unknown command name is answered with -32601; missing or invalid
\* arguments with -32602; every internal failure - of the walk, of a read, of
\* the engine, of the send to the worker, of the wait for its reply - with
\* -32603 and the failure's own text as message.
C21_ErrorCodeMapping ==
    RequestDone =>
        LET p == inbound.params
            c == mainCur IN
        /\ (p.tag # "malformed" /\ p.command \notin Commands) =>
               /\ Len(Responses) = 1
               /\ Responses[1].error # None
               /\ Responses[1].error[1].code = -32601
        /\ (p.tag # "malformed" /\ p.command \in Commands
                /\ p.arguments.tag \in {"missing", "invalid"}) =>
               /\ Len(Responses) = 1
               /\ Responses[1].error # None
               /\ Responses[1].error[1].code = -32602
        /\ inbound.walk.tag = "Err" => AnsweredErr(-32603, to_string(inbound.walk.val))
        /\ (cpc[c] = "returned" /\ outcome[c].tag = "Err") =>
               AnsweredErr(-32603, to_string(outcome[c].val))
        /\ (cpc[c] = "returned" /\ outcome[c].tag = "SendError") =>
               AnsweredErr(-32603, to_string("SendError"))
        /\ cpc[c] = "panicked" => AnsweredErr(-32603, to_string("RecvError"))

\* A flowchart request with no_chunk = false whose graph was built and whose
\* chunker call succeeded.
ChunkedFlowchart ==
    /\ hrun.kind = "GenerateMermaidFlowchart"
    /\ ~hrun.no_chunk
    /\ hrun.graph # None
    /\ hrun.chunker_calls = 1
    /\ world.chunker.tag = "Ok"

\* The first of the n pieces of the diagram of the run's graph.
FirstChunkOf(n) == [chunk |-> 1, of |-> n, diagram |-> write_diagram(hrun.graph[1])]

\* The result reports is_chunked = true, the chunker's chunk count and the
\* chunker's output directory.
ReportsChunking ==
    /\ hrun.result.tag = "Ok"
    /\ hrun.result.val.is_chunked = TRUE
    /\ hrun.result.val.chunk_dir = ToJson(Some("./mermaid-chunks/"))
    /\ hrun.mermaid[1].chunks[1][1].filename =
           Some(<<world.chunker.chunk_count, " chunks generated">>)
    /\ hrun.result.val.chunks = ToJson(hrun.mermaid[1].chunks)

\* C22 as stated: for a flowchart request with no_chunk = false whose chunker
\* call succeeds, the result has is_chunked = true, its content is the first
\* chunk's content as read back from the chunk directory, and it reports the
\* chunker's chunk count and output directory.
C22_ContentIsFirstChunk ==
    ChunkedFlowchart =>
        /\ ReportsChunking
        /\ hrun.result.val.mermaid = FirstChunkOf(world.chunker.chunk_count)

\* C22: for a flowchart request with no_chunk = false whose chunker call
\* succeeds, the result has is_chunked = true and reports the chunker's chunk
\* count and output directory; its content is the first chunk's content when
\* chunk_001.mmd can be read back, and the whole diagram when it cannot.
C22_ContentIsFirstChunkOrWholeDiagram ==
    ChunkedFlowchart =>
        /\ ReportsChunking
        /\ world.chunker.readable =>
               hrun.result.val.mermaid = FirstChunkOf(world.chunker.chunk_count)
        /\ ~world.chunker.readable =>
               hrun.result.val.mermaid = write_diagram(hrun.graph[1])

\* The chunker cut the diagram in more than one piece and the first was read
\* back.
C22_Witness ==
    /\ ChunkedFlowchart
    /\ world.chunker.chunk_count > 1
    /\ world.chunker.readable
    /\ hrun.result.tag = "Ok"
    /\ hrun.result.val.mermaid = FirstChunkOf(world.chunker.chunk_count)

\* The last request read is one the front end answers by itself: its command
\* is unknown, its arguments are missing or invalid, or the walk of its
\* workspace found no source file.
UnknownCommand == inbound.params.tag # "malformed" /\ inbound.params.command \notin Commands
BadArguments ==
    /\ inbound.params.tag # "malformed"
    /\ inbound.params.command \in Commands
    /\ inbound.params.arguments.tag \in {"missing", "invalid"}
EmptyWorkspace == inbound.walk = Ok(<<>>)

\* The context of the last request never had a message enqueued.
NotEnqueued == \A i \in DOMAIN enqOrder : enqOrder[i] # mainCur

\* C23: every non-Shutdown request in the queue or with the worker carries a
\* non-empty list of sources; a request with an unknown command, with missing
\* or invalid arguments, or over a workspace without source files is answered
\* by the front end with nothing enqueued, the empty workspace with a null
\* success response.
C23_OnlyNonEmptySourcesReachQueue ==
    /\ \A i \in DOMAIN queue : queue[i].kind # "Shutdown" => queue[i].uris # <<>>
    /\ \A r \in inflight : r.kind # "Shutdown" => r.uris # <<>>
    /\ (inbound.tag = "Request" /\ (UnknownCommand \/ BadArguments \/ EmptyWorkspace)) =>
          /\ NotEnqueued
          /\ cpc[mainCur] = "undispatched"
          /\ Len(Responses) = 1
          /\ (UnknownCommand \/ BadArguments) => Responses[1].error # None
          /\ EmptyWorkspace => Responses[1] = Response_new_ok(mainCur, JsonNull)

\* After a request that reached the queue, a request over a workspace without
\* source files was answered with null and the queue is empty.
C23_Witness ==
    /\ inbound.tag = "Request"
    /\ EmptyWorkspace
    /\ Len(enqOrder) = 1
    /\ queue = <<>>
    /\ Responses = <<Response_new_ok(mainCur, JsonNull)>>

\* C24: once main_loop has left its for loop, by a shutdown request or by the
\* connection closing, the worker thread reaches Stopped and the join on it
\* returns: main_loop terminates.
C24_MainLoopTerminates ==
    (mainpc = "joining") ~> (wpc = "stopped" /\ mainpc = "returned")

PendingRequests ==
    { queue[i] : i \in { j \in DOMAIN queue : queue[j].kind # "Shutdown" } }
    \cup { r \in inflight : r.kind # "Shutdown" }

\* C26: in the server as wired, at most one non-Shutdown request is queued or
\* in flight and at most one dispatch is waiting; once Shutdown is sent no
\* request is pending, Shutdown is the last message ever enqueued, and the
\* queue never holds more than one message.
C26_OnePendingAndShutdownLast ==
    /\ Len(queue) <= 1
    /\ Cardinality(PendingRequests) <= 1
    /\ Cardinality({ c \in Contexts : cpc[c] = "waiting" }) <= 1
    /\ shutdownSent =>
          /\ PendingRequests = {}
          /\ \A c \in Contexts : cpc[c] # "waiting"
    /\ \A i \in DOMAIN enqOrder : enqOrder[i] = ShutdownId => i = Len(enqOrder)

\* Shutdown is in the queue, enqueued after a request that was answered.
C26_Witness ==
    /\ queue # <<>> /\ queue[1].kind = "Shutdown"
    /\ Len(enqOrder) = 2
    /\ enqOrder[1] # ShutdownId
    /\ cpc[enqOrder[1]] = "returned"

====
